---------------------------- MODULE Spec2Model ----------------------------
(***************************************************************************)
(* Model of the finite state machine engine of fsm.c / fsm.h (V2.1.0).     *)
(*                                                                         *)
(* One FSM instance is modelled.  The host calls the public API between    *)
(* handler calls; a running fsm_hndl() is a sequence of steps (pc) so that *)
(* the user callbacks on_exit / on_entry / on_activity, which run inside   *)
(* the handler and may call the API on the same instance, are visible.     *)
(*                                                                         *)
(* uint32_t values are kept at their width: a value is the pair <<hi,lo>>  *)
(* of its 16-bit halves, all arithmetic is modulo 2^32.                    *)
(***************************************************************************)
EXTENDS Integers, Sequences, FiniteSets, TLC

(***************************************************************************)
(* Bounds of the model.                                                    *)
(***************************************************************************)
\* largest number of states of a configuration table (num_of)
MaxStates == 2
\* number of times the host tick advances in a run
MaxTicks == 2
\* largest value written to the shared data slot
MaxData == 1

(***************************************************************************)
(* uint32_t arithmetic.                                                    *)
(***************************************************************************)
Half == 2^16

U32(hi, lo) == <<hi, lo>>

Zero32 == U32(0, 0)

Add32(a, b) ==
    LET lo == a[2] + b[2]
        hi == a[1] + b[1] + (lo \div Half)
    IN  U32(hi % Half, lo % Half)

Sub32(a, b) ==
    LET lo == a[2] - b[2]
        borrow == IF lo < 0 THEN 1 ELSE 0
        hi == a[1] - b[1] - borrow
    IN  U32((hi + Half) % Half, (lo + Half) % Half)

Ge32(a, b) == a[1] > b[1] \/ (a[1] = b[1] /\ a[2] >= b[2])

\* 0x1FFFFFFF
DurationCeiling == U32(8191, 65535)

\* FSM_LIMIT_DURATION that does not clamp
FSM_LIMIT_DURATION_unlimited(cnt) == cnt

FSM_LIMIT_DURATION(cnt) ==
    IF Ge32(cnt, DurationCeiling) THEN DurationCeiling ELSE cnt

(***************************************************************************)
(* Status codes, configuration tables.                                     *)
(***************************************************************************)
eFSM_OK == "eFSM_OK"
eFSM_ERROR == "eFSM_ERROR"
eFSM_ERROR_INIT == "eFSM_ERROR_INIT"

\* the status of a call of fsm_hndl that has not returned yet
Running == "running"

\* the status of a call of a function returning void
Void == "void"

\* a NULL pointer
NULL == [null |-> TRUE]

\* a dangling p_cfg: the instance was allocated but p_cfg was never written
Garbage == [garbage |-> TRUE]

\* one fsm_state_cfg_t: TRUE where the function pointer is not NULL.  The tables
\* of the model give every state the same pattern of NULL callbacks: all three
\* callbacks, one of them NULL, or none at all.
fsm_state_cfg_t ==
    { [on_entry |-> TRUE,  on_activity |-> TRUE,  on_exit |-> TRUE],
      [on_entry |-> FALSE, on_activity |-> TRUE,  on_exit |-> TRUE],
      [on_entry |-> TRUE,  on_activity |-> FALSE, on_exit |-> TRUE],
      [on_entry |-> TRUE,  on_activity |-> TRUE,  on_exit |-> FALSE],
      [on_entry |-> FALSE, on_activity |-> FALSE, on_exit |-> FALSE] }

\* the configuration tables the application may pass to fsm_init
fsm_cfg_t ==
    { [num_of |-> n, p_states |-> [s \in 0..(n-1) |-> c]] :
        n \in 0..MaxStates, c \in fsm_state_cfg_t }

\* values of the host tick deltas between two reads of FSM_GET_SYSTICK()
\* between two reads the host tick advances by 1, or by 0xFFFFFFFF (the largest
\* difference two reads of a uint32_t tick can show)
TickDeltas == { U32(0, 1), U32(65535, 65535) }

\* values of the shared data slot (fsm_data_t.u32)
fsm_data_t == 0..MaxData

\* arguments of fsm_goto_state: every valid state and one past the largest table
StateArgs == 0..MaxStates

(***************************************************************************)
(* State.                                                                  *)
(***************************************************************************)
VARIABLES
    p_fsm_inst,     \* the handle fsm_init stores: NULL or Inst
    fsm,            \* the fsm_t the handle points to
    systick,        \* the host tick FSM_GET_SYSTICK() returns
    pc,             \* position of the program: "boot", "idle" or a step of fsm_hndl
    branch,         \* the branch fsm_manager took in the running (or last) fsm_hndl
    nticks,         \* tick advances so far
    calls,          \* callbacks invoked by the running (or last) fsm_hndl, in order
    ret,            \* the public call made last, and its status
    hist            \* what is remembered of the run to state the properties

vars == <<p_fsm_inst, fsm, systick, pc, branch, nticks, calls, ret, hist>>

\* the struct before fsm_init writes it: malloc returns memory of any content;
\* two fills are drawn, all-zero bytes and all-0xFF bytes, and any data slot
MallocFill ==
    { [p_cfg |-> Garbage, duration |-> w, tick_prev |-> w,
       state |-> [is_init |-> b, cur |-> c, next |-> c],
       data |-> d, first_entry |-> b, is_init |-> b] :
        <<b, c, w>> \in { <<FALSE, 0, Zero32>>, <<TRUE, 255, U32(65535, 65535)>> },
        d \in fsm_data_t }

\* the one instance of the model
Inst == [inst |-> 1]

NoCall == [fn |-> "none", arg |-> 0, status |-> Void]

Returned(fn, arg, status) == [fn |-> fn, arg |-> arg, status |-> status]

(***************************************************************************)
(* hist: the outcome of fsm_init; state.cur and state.next when the        *)
(* running (or last) fsm_hndl was called, and whether the host had made a  *)
(* valid fsm_goto_state since the handler call before; the number of       *)
(* handler calls begun and finished since the last fsm_goto_state or       *)
(* fsm_reset (2 for two or more, -1 while a handler call runs in which a   *)
(* callback called fsm_goto_state); whether fsm_goto_state was called      *)
(* since fsm_init ("init") or fsm_reset ("reset") and the handler call     *)
(* that followed; the tick from which the duration counts (the tick        *)
(* sampled when the state was entered or by the last fsm_reset_duration),  *)
(* and whether it was sampled by a fsm_reset_duration that no              *)
(* fsm_handle_cur_state has followed yet.                                  *)
(***************************************************************************)
NoHist ==
    [init |-> "none", h_cur |-> 0, h_next |-> 0, h_req |-> FALSE,
     req |-> FALSE, quiet |-> 0, fresh |-> "no",
     t0 |-> Zero32, rd |-> FALSE]

\* the duration was set to 0 and counts from tick t
Sampled(h, t) == [h EXCEPT !.t0 = t, !.rd = FALSE]

\* fsm_reset_duration set the duration to 0 at tick t
Resampled(h, t) == [h EXCEPT !.t0 = t, !.rd = TRUE]

\* fsm_handle_cur_state has added the ticks elapsed to the duration
Accumulated(h) == [h EXCEPT !.rd = FALSE]

\* the host made a call: the handler call before it is no longer the last call
HostCalled(h) == [h EXCEPT !.h_cur = 0, !.h_next = 0, !.h_req = FALSE]

Init ==
    /\ p_fsm_inst = NULL
    /\ fsm \in { f \in MallocFill : f.is_init = FALSE /\ f.data = 0 }
    /\ systick = Zero32
    /\ pc = "boot"
    /\ branch = "none"
    /\ nticks = 0
    /\ calls = <<>>
    /\ ret = NoCall
    /\ hist = NoHist

(***************************************************************************)
(* fsm_reset_state and fsm_init.                                           *)
(***************************************************************************)
\* fsm_reset_state that forgets state.is_init
fsm_reset_state_no_initial(f) ==
    [f EXCEPT !.state = [is_init |-> FALSE, cur |-> 0, next |-> 0],
              !.duration = Zero32,
              !.tick_prev = Zero32,
              !.is_init = TRUE,
              !.first_entry = FALSE]

\* fsm_reset_state that forgets first_entry
fsm_reset_state_keep_first_entry(f) ==
    [f EXCEPT !.state = [is_init |-> TRUE, cur |-> 0, next |-> 0],
              !.duration = Zero32,
              !.tick_prev = Zero32,
              !.is_init = TRUE]

\* fsm_reset_state that clears the data slot too
fsm_reset_state_clears_data(f) ==
    [f EXCEPT !.state = [is_init |-> TRUE, cur |-> 0, next |-> 0],
              !.duration = Zero32,
              !.tick_prev = Zero32,
              !.is_init = TRUE,
              !.first_entry = FALSE,
              !.data = 0]

fsm_reset_state(f) ==
    [f EXCEPT !.state = [is_init |-> TRUE, cur |-> 0, next |-> 0],
              !.duration = Zero32,
              !.tick_prev = Zero32,
              !.is_init = TRUE,
              !.first_entry = FALSE]

\* fsm_init(&inst, p_cfg) with malloc returning mem (NULL or a fill of MallocFill)
fsm_init(p_cfg, mem) ==
    IF p_cfg # NULL
    THEN IF mem # NULL /\ p_cfg.num_of > 0
         THEN /\ p_fsm_inst' = Inst
              /\ fsm' = fsm_reset_state([mem EXCEPT !.p_cfg = p_cfg])
              /\ ret' = Returned("fsm_init", p_cfg.num_of, eFSM_OK)
         ELSE /\ p_fsm_inst' = IF mem = NULL THEN NULL ELSE Inst
              /\ fsm' = IF mem = NULL THEN fsm ELSE mem
              /\ ret' = Returned("fsm_init", p_cfg.num_of, eFSM_ERROR_INIT)
    ELSE /\ UNCHANGED <<p_fsm_inst, fsm>>
         /\ ret' = Returned("fsm_init", 0, eFSM_ERROR)

HostInit ==
    /\ pc = "boot"
    /\ \E p_cfg \in fsm_cfg_t \cup {NULL}, mem \in MallocFill \cup {NULL} :
          /\ fsm_init(p_cfg, mem)
          /\ hist' = [Sampled(hist, Zero32) EXCEPT
                 !.init = IF ret'.status = eFSM_OK THEN "ok"
                          ELSE IF p_cfg = NULL THEN "nullcfg"
                          ELSE IF mem = NULL THEN "nomem"
                          ELSE "empty",
                 !.fresh = IF ret'.status = eFSM_OK THEN "init" ELSE "no"]
    /\ pc' = "idle"
    /\ UNCHANGED <<systick, branch, nticks, calls>>

\* fsm_init returned eFSM_OK
Constructed == hist.init = "ok"

\* the number of states of the table of a constructed instance
NumOf == fsm.p_cfg.num_of

(***************************************************************************)
(* Reads through p_cfg.  Reading through a dangling p_cfg is undefined     *)
(* behaviour: the program goes on with any value read, or not at all.  The *)
(* model leaves the program there, at "undefined", with or without a call  *)
(* through the pointer it read.                                            *)
(***************************************************************************)
Dangling == p_fsm_inst # NULL /\ fsm.p_cfg = Garbage

CallbackRead(kind, s) == fsm.p_cfg.p_states[s][kind]

\* a callback pointer is read through a dangling p_cfg, and perhaps called
WildCallback(kind, s) ==
    /\ Dangling
    /\ pc' = "undefined"
    /\ calls' \in {calls, Append(calls, <<kind, s>>)}

(***************************************************************************)
(* The public API, as called by the host or by a callback.                 *)
(***************************************************************************)
fsm_reset ==
    IF p_fsm_inst # NULL
    THEN /\ fsm' = fsm_reset_state(fsm)
         /\ ret' = Returned("fsm_reset", 0, eFSM_OK)
    ELSE /\ fsm' = fsm
         /\ ret' = Returned("fsm_reset", 0, eFSM_ERROR)

\* fsm_goto_state that accepts state <= num_of
fsm_goto_state_inclusive(state) ==
    \E accepted \in IF Dangling THEN BOOLEAN
                    ELSE {p_fsm_inst # NULL /\ state <= fsm.p_cfg.num_of} :
        IF accepted
        THEN /\ fsm' = [fsm EXCEPT !.state.next = state]
             /\ ret' = Returned("fsm_goto_state", state, eFSM_OK)
        ELSE /\ fsm' = fsm
             /\ ret' = Returned("fsm_goto_state", state, eFSM_ERROR)

\* fsm_goto_state that does not compare state with num_of
fsm_goto_state_unchecked(state) ==
    \E accepted \in IF Dangling THEN BOOLEAN ELSE {p_fsm_inst # NULL} :
        IF accepted
        THEN /\ fsm' = [fsm EXCEPT !.state.next = state]
             /\ ret' = Returned("fsm_goto_state", state, eFSM_OK)
        ELSE /\ fsm' = fsm
             /\ ret' = Returned("fsm_goto_state", state, eFSM_ERROR)

\* (with a dangling p_cfg the comparison reads any num_of)
fsm_goto_state(state) ==
    \E accepted \in IF Dangling THEN BOOLEAN
                    ELSE {p_fsm_inst # NULL /\ state < fsm.p_cfg.num_of} :
        IF accepted
        THEN /\ fsm' = [fsm EXCEPT !.state.next = state]
             /\ ret' = Returned("fsm_goto_state", state, eFSM_OK)
        ELSE /\ fsm' = fsm
             /\ ret' = Returned("fsm_goto_state", state, eFSM_ERROR)

\* fsm_reset_duration that does not sample the tick
fsm_reset_duration_no_sample ==
    /\ fsm' = IF p_fsm_inst # NULL
              THEN [fsm EXCEPT !.duration = Zero32]
              ELSE fsm
    /\ ret' = Returned("fsm_reset_duration", 0, Void)

fsm_reset_duration ==
    /\ fsm' = IF p_fsm_inst # NULL
              THEN [fsm EXCEPT !.duration = Zero32, !.tick_prev = systick]
              ELSE fsm
    /\ ret' = Returned("fsm_reset_duration", 0, Void)

fsm_set_data(data) ==
    /\ fsm' = IF p_fsm_inst # NULL THEN [fsm EXCEPT !.data = data] ELSE fsm
    /\ ret' = Returned("fsm_set_data", data, Void)

fsm_get_state == IF p_fsm_inst # NULL THEN fsm.state.cur ELSE 0

fsm_get_duration == IF p_fsm_inst # NULL THEN fsm.duration ELSE Zero32

fsm_get_first_entry == IF p_fsm_inst # NULL THEN fsm.first_entry ELSE FALSE

fsm_get_data == IF p_fsm_inst # NULL THEN fsm.data ELSE 0

(***************************************************************************)
(* The host, between two handler calls.                                    *)
(***************************************************************************)
HostReset ==
    /\ pc = "idle"
    /\ fsm_reset
    /\ hist' = [HostCalled(IF ret'.status = eFSM_OK
                            THEN Sampled(hist, Zero32) ELSE hist) EXCEPT
           !.req = FALSE, !.quiet = 0,
           !.fresh = IF ret'.status = eFSM_OK THEN "reset" ELSE "no"]
    /\ UNCHANGED <<p_fsm_inst, systick, pc, branch, nticks, calls>>

HostGotoState ==
    /\ pc = "idle"
    /\ \E state \in StateArgs : fsm_goto_state(state)
    /\ hist' = [HostCalled(hist) EXCEPT
           !.req = (hist.req \/ ret'.status = eFSM_OK),
           !.quiet = 0, !.fresh = "no"]
    /\ UNCHANGED <<p_fsm_inst, systick, pc, branch, nticks, calls>>

HostResetDuration ==
    /\ pc = "idle"
    /\ fsm_reset_duration
    /\ hist' = HostCalled(IF p_fsm_inst # NULL
                           THEN Resampled(hist, systick) ELSE hist)
    /\ UNCHANGED <<p_fsm_inst, systick, pc, branch, nticks, calls>>

HostSetData ==
    /\ pc = "idle"
    /\ \E data \in fsm_data_t : fsm_set_data(data)
    /\ hist' = HostCalled(hist)
    /\ UNCHANGED <<p_fsm_inst, systick, pc, branch, nticks, calls>>

\* The host tick counts on: between two handler calls, while a callback runs,
\* and between the two reads of the tick of a handler call that enters a state.
\* (The other steps of fsm_hndl read no tick: an advance there is one of these.)
Tick ==
    /\ pc \in {"idle", "cb_exit", "cb_entry", "cb_activity", "entered"}
    /\ nticks < MaxTicks
    /\ \E d \in TickDeltas : systick' = Add32(systick, d)
    /\ nticks' = nticks + 1
    /\ UNCHANGED <<p_fsm_inst, fsm, pc, branch, calls, ret, hist>>

(***************************************************************************)
(* fsm_hndl, step by step.                                                 *)
(***************************************************************************)
\* hist when a handler call returns eFSM_OK
HndlReturned(h) ==
    [h EXCEPT !.quiet = IF h.quiet = -1 THEN 0 ELSE IF h.quiet = 0 THEN 1 ELSE 2]

\* fsm_hndl up to the call of fsm_manager
fsm_hndl ==
    /\ pc = "idle"
    /\ IF p_fsm_inst = NULL
       THEN /\ ret' = Returned("fsm_hndl", 0, eFSM_ERROR)
            /\ hist' = HostCalled(hist)
            /\ UNCHANGED <<pc, calls>>
       ELSE IF fsm.is_init = TRUE
       THEN /\ pc' = "manager"
            /\ calls' = <<>>
            /\ ret' = Returned("fsm_hndl", 0, Running)
            /\ hist' = [hist EXCEPT
                   !.h_cur = fsm.state.cur, !.h_next = fsm.state.next,
                   !.h_req = hist.req, !.req = FALSE,
                   !.fresh = IF fsm.state.is_init THEN hist.fresh ELSE "no"]
       ELSE /\ ret' = Returned("fsm_hndl", 0, eFSM_ERROR_INIT)
            /\ hist' = HostCalled(hist)
            /\ UNCHANGED <<pc, calls>>
    /\ UNCHANGED <<p_fsm_inst, fsm, systick, branch, nticks>>

\* fsm_manager that leaves first_entry as it is when the state stays
fsm_manager_keep_first_entry ==
    /\ pc = "manager"
    /\ IF fsm.state.is_init
       THEN /\ fsm' = [fsm EXCEPT !.state.is_init = FALSE]
            /\ branch' = "initial"
            /\ pc' = "enter"
       ELSE IF fsm.state.cur # fsm.state.next
       THEN /\ fsm' = fsm
            /\ branch' = "transition"
            /\ pc' = "exit"
       ELSE /\ fsm' = fsm
            /\ branch' = "same"
            /\ pc' = "handle"
    /\ UNCHANGED <<p_fsm_inst, systick, nticks, calls, ret, hist>>

\* fsm_manager that sets the duration to 0 when the state stays
fsm_manager_same_resets_duration ==
    /\ pc = "manager"
    /\ IF fsm.state.is_init
       THEN /\ fsm' = [fsm EXCEPT !.state.is_init = FALSE]
            /\ branch' = "initial"
            /\ pc' = "enter"
       ELSE IF fsm.state.cur # fsm.state.next
       THEN /\ fsm' = fsm
            /\ branch' = "transition"
            /\ pc' = "exit"
       ELSE /\ fsm' = [fsm EXCEPT !.first_entry = FALSE, !.duration = Zero32]
            /\ branch' = "same"
            /\ pc' = "handle"
    /\ UNCHANGED <<p_fsm_inst, systick, nticks, calls, ret, hist>>

\* fsm_manager: the choice of the branch
fsm_manager ==
    /\ pc = "manager"
    /\ IF fsm.state.is_init
       THEN /\ fsm' = [fsm EXCEPT !.state.is_init = FALSE]
            /\ branch' = "initial"
            /\ pc' = "enter"
       ELSE IF fsm.state.cur # fsm.state.next
       THEN /\ fsm' = fsm
            /\ branch' = "transition"
            /\ pc' = "exit"
       ELSE /\ fsm' = [fsm EXCEPT !.first_entry = FALSE]
            /\ branch' = "same"
            /\ pc' = "handle"
    /\ UNCHANGED <<p_fsm_inst, systick, nticks, calls, ret, hist>>

\* fsm_exit_cur_state: on_exit of state.cur is called when it is not NULL
fsm_exit_cur_state ==
    /\ pc = "exit"
    /\ IF Dangling THEN WildCallback("on_exit", fsm.state.cur)
       ELSE IF CallbackRead("on_exit", fsm.state.cur)
       THEN /\ calls' = Append(calls, <<"on_exit", fsm.state.cur>>)
            /\ pc' = "cb_exit"
       ELSE /\ calls' = calls
            /\ pc' = "enter"
    /\ UNCHANGED <<p_fsm_inst, fsm, systick, branch, nticks, ret, hist>>

\* fsm_enter_next_state that does not set the duration to 0
fsm_enter_next_state_keep_duration ==
    /\ pc = "enter"
    /\ fsm' = [fsm EXCEPT !.tick_prev = systick]
    /\ IF Dangling THEN WildCallback("on_entry", fsm.state.next)
       ELSE IF CallbackRead("on_entry", fsm.state.next)
       THEN /\ calls' = Append(calls, <<"on_entry", fsm.state.next>>)
            /\ pc' = "cb_entry"
       ELSE /\ calls' = calls
            /\ pc' = "entered"
    /\ hist' = Sampled(hist, systick)
    /\ UNCHANGED <<p_fsm_inst, systick, branch, nticks, ret>>

\* fsm_enter_next_state up to the call of on_entry of state.next
fsm_enter_next_state ==
    /\ pc = "enter"
    /\ fsm' = [fsm EXCEPT !.tick_prev = systick, !.duration = Zero32]
    /\ IF Dangling THEN WildCallback("on_entry", fsm.state.next)
       ELSE IF CallbackRead("on_entry", fsm.state.next)
       THEN /\ calls' = Append(calls, <<"on_entry", fsm.state.next>>)
            /\ pc' = "cb_entry"
       ELSE /\ calls' = calls
            /\ pc' = "entered"
    /\ hist' = Sampled(hist, systick)
    /\ UNCHANGED <<p_fsm_inst, systick, branch, nticks, ret>>

\* fsm_enter_next_state after on_entry: state.cur = state.next
fsm_enter_next_state_cur ==
    /\ pc = "entered"
    /\ fsm' = [fsm EXCEPT !.state.cur = fsm.state.next]
    /\ pc' = IF branch = "transition" THEN "first_entry" ELSE "handle"
    /\ UNCHANGED <<p_fsm_inst, systick, branch, nticks, calls, ret, hist>>

\* fsm_manager after the transition: first_entry = true
fsm_manager_first_entry ==
    /\ pc = "first_entry"
    /\ fsm' = [fsm EXCEPT !.first_entry = TRUE]
    /\ pc' = "handle"
    /\ UNCHANGED <<p_fsm_inst, systick, branch, nticks, calls, ret, hist>>

\* the duration fsm_handle_cur_state computes from the tick it reads
Accumulate(duration, tick_prev, tick_now) ==
    FSM_LIMIT_DURATION(Add32(duration, Sub32(tick_now, tick_prev)))

\* fsm_handle_cur_state that calls no on_activity in a call that made a transition
fsm_handle_cur_state_no_activity_on_transition ==
    /\ pc = "handle"
    /\ fsm' = [fsm EXCEPT !.duration = Accumulate(fsm.duration, fsm.tick_prev, systick),
                          !.tick_prev = systick]
    /\ IF Dangling
       THEN /\ WildCallback("on_activity", fsm.state.cur)
            /\ UNCHANGED <<ret, hist>>
       ELSE IF CallbackRead("on_activity", fsm.state.cur) /\ branch # "transition"
       THEN /\ calls' = Append(calls, <<"on_activity", fsm.state.cur>>)
            /\ pc' = "cb_activity"
            /\ ret' = ret
            /\ hist' = Accumulated(hist)
       ELSE /\ calls' = calls
            /\ pc' = "idle"
            /\ ret' = Returned("fsm_hndl", 0, eFSM_OK)
            /\ hist' = HndlReturned(Accumulated(hist))
    /\ UNCHANGED <<p_fsm_inst, systick, branch, nticks>>

\* fsm_handle_cur_state up to the call of on_activity of state.cur; fsm_hndl
\* returns from here when on_activity is NULL
fsm_handle_cur_state ==
    /\ pc = "handle"
    /\ fsm' = [fsm EXCEPT !.duration = Accumulate(fsm.duration, fsm.tick_prev, systick),
                          !.tick_prev = systick]
    /\ IF Dangling
       THEN /\ WildCallback("on_activity", fsm.state.cur)
            /\ UNCHANGED <<ret, hist>>
       ELSE IF CallbackRead("on_activity", fsm.state.cur)
       THEN /\ calls' = Append(calls, <<"on_activity", fsm.state.cur>>)
            /\ pc' = "cb_activity"
            /\ ret' = ret
            /\ hist' = Accumulated(hist)
       ELSE /\ calls' = calls
            /\ pc' = "idle"
            /\ ret' = Returned("fsm_hndl", 0, eFSM_OK)
            /\ hist' = HndlReturned(Accumulated(hist))
    /\ UNCHANGED <<p_fsm_inst, systick, branch, nticks>>

(***************************************************************************)
(* A running callback: it may call the API on its instance, then returns.  *)
(***************************************************************************)
InCallback == pc \in {"cb_exit", "cb_entry", "cb_activity"}

CbGotoState ==
    /\ InCallback
    /\ \E state \in StateArgs : fsm_goto_state(state)
    /\ hist' = [hist EXCEPT !.quiet = -1, !.fresh = "no"]
    /\ UNCHANGED <<p_fsm_inst, systick, pc, branch, nticks, calls>>

CbResetDuration ==
    /\ InCallback
    /\ fsm_reset_duration
    /\ hist' = Resampled(hist, systick)
    /\ UNCHANGED <<p_fsm_inst, systick, pc, branch, nticks, calls>>

CbSetData ==
    /\ InCallback
    /\ \E data \in fsm_data_t : fsm_set_data(data)
    /\ UNCHANGED <<p_fsm_inst, systick, pc, branch, nticks, calls, hist>>

\* the callback returns: to fsm_enter_next_state after on_exit, to the
\* assignment of state.cur after on_entry, to the host after on_activity
CbReturn ==
    /\ InCallback
    /\ pc' = CASE pc = "cb_exit" -> "enter"
               [] pc = "cb_entry" -> "entered"
               [] pc = "cb_activity" -> "idle"
    /\ ret' = IF pc = "cb_activity"
              THEN Returned("fsm_hndl", 0, eFSM_OK)
              ELSE Returned("fsm_hndl", 0, Running)
    /\ hist' = IF pc = "cb_activity" THEN HndlReturned(hist) ELSE hist
    /\ UNCHANGED <<p_fsm_inst, fsm, systick, branch, nticks, calls>>

Next ==
    \/ HostInit
    \/ HostReset
    \/ HostGotoState
    \/ HostResetDuration
    \/ HostSetData
    \/ Tick
    \/ fsm_hndl
    \/ fsm_manager
    \/ fsm_exit_cur_state
    \/ fsm_enter_next_state
    \/ fsm_enter_next_state_cur
    \/ fsm_manager_first_entry
    \/ fsm_handle_cur_state
    \/ CbGotoState
    \/ CbResetDuration
    \/ CbSetData
    \/ CbReturn

Spec == Init /\ [][Next]_vars

(***************************************************************************)
(* Vocabulary of the properties.                                           *)
(***************************************************************************)
\* a handler call is running
InHandler == pc \notin {"boot", "idle", "undefined"}

\* the handler call has just returned eFSM_OK, no other call was made since
JustReturned == pc = "idle" /\ ret = Returned("fsm_hndl", 0, eFSM_OK)

\* of a sequence of callbacks, those the table of the instance has
Configured(cbs) == SelectSeq(cbs, LAMBDA c : fsm.p_cfg.p_states[c[2]][c[1]])

\* the callbacks of the given kinds in the log of the handler call
CallsOf(kinds) == SelectSeq(calls, LAMBDA c : c[1] \in kinds)

(***************************************************************************)
(* The host calling fsm_goto_state from an interrupt while fsm_hndl runs.  *)
(* The interrupt is served between two steps of the handler or while a     *)
(* callback runs; the callbacks themselves request no transition here.     *)
(***************************************************************************)
IsrGotoState ==
    /\ InHandler
    /\ \E state \in StateArgs : fsm_goto_state(state)
    /\ hist' = [hist EXCEPT !.quiet = -1, !.fresh = "no"]
    /\ UNCHANGED <<p_fsm_inst, systick, pc, branch, nticks, calls>>

NextIsr ==
    \/ HostInit
    \/ HostReset
    \/ HostGotoState
    \/ HostResetDuration
    \/ HostSetData
    \/ Tick
    \/ fsm_hndl
    \/ fsm_manager
    \/ fsm_exit_cur_state
    \/ fsm_enter_next_state
    \/ fsm_enter_next_state_cur
    \/ fsm_manager_first_entry
    \/ fsm_handle_cur_state
    \/ CbResetDuration
    \/ CbSetData
    \/ CbReturn
    \/ IsrGotoState

SpecIsr == Init /\ [][NextIsr]_vars

(***************************************************************************)
(* C1: a handler call that finds a pending request for a state other than  *)
(* the current one, outside the initial cycle, calls on_exit of the old    *)
(* state, on_entry of the target, on_activity of the target, in this order *)
(* and once each, and returns with the target as current state;            *)
(* fsm_get_first_entry() is true from the activity callback of that call   *)
(* on, and false in a handler call that takes the no-transition branch.    *)
(***************************************************************************)
C1_TransitionSequence ==
    Constructed =>
        /\ (JustReturned /\ branch = "transition") =>
              /\ calls = Configured(<< <<"on_exit", hist.h_cur>>,
                                       <<"on_entry", hist.h_next>>,
                                       <<"on_activity", hist.h_next>> >>)
              /\ fsm_get_state = hist.h_next
              /\ fsm_get_first_entry
        /\ (pc = "cb_activity" /\ branch = "transition") => fsm_get_first_entry
        /\ ((pc = "cb_activity" \/ JustReturned) /\ branch = "same") =>
              ~fsm_get_first_entry

(***************************************************************************)
(* C2: fsm_init succeeds only on a table of at least one state and leaves  *)
(* state.cur = state.next = 0, state.is_init set, duration 0 and is_init   *)
(* set; when no fsm_goto_state is called, the first handler call calls     *)
(* on_entry of state 0, then on_activity of state 0, no on_exit, and       *)
(* returns with state 0 current.                                           *)
(***************************************************************************)
C2_ConstructThenFirstHandle ==
    /\ (ret.fn = "fsm_init" /\ ret.status = eFSM_OK) =>
          /\ ret.arg >= 1
          /\ NumOf = ret.arg
          /\ fsm.state.cur = 0 /\ fsm.state.next = 0
          /\ fsm.state.is_init
          /\ fsm.duration = Zero32
          /\ fsm.is_init
          /\ fsm_get_state = 0
    /\ (JustReturned /\ hist.fresh = "init") =>
          /\ calls = Configured(<< <<"on_entry", 0>>, <<"on_activity", 0>> >>)
          /\ fsm_get_state = 0

\* the first handler call after fsm_init has run both callbacks of state 0
C2_Witness ==
    /\ JustReturned
    /\ hist.fresh = "init"
    /\ calls = << <<"on_entry", 0>>, <<"on_activity", 0>> >>

C4_LastValidRequest ==
    (Constructed /\ JustReturned /\ branch # "initial" /\ hist.h_req) =>
        /\ fsm_get_state = hist.h_next
        /\ \A i \in DOMAIN calls : calls[i][2] \in {hist.h_cur, hist.h_next}

(***************************************************************************)
(* C5: the activity callback sees fsm_get_first_entry() true exactly in    *)
(* the handler calls that entered the current state, the initial entry     *)
(* after fsm_init or fsm_reset included.                                   *)
(***************************************************************************)
C5_FirstEntrySeenByActivity ==
    (Constructed /\ pc = "cb_activity") =>
        (fsm_get_first_entry <=> branch \in {"initial", "transition"})

(***************************************************************************)
(* C6: on an instance whose fsm_init failed on an empty table (num_of = 0) *)
(* every later fsm_hndl returns eFSM_ERROR_INIT and calls no callback,     *)
(* whatever the host called in between.                                    *)
(***************************************************************************)
C6_FailedConstructNeverHandled ==
    hist.init = "empty" =>
        /\ ~InHandler
        /\ pc # "undefined"
        /\ calls = <<>>
        /\ ret.fn = "fsm_hndl" => ret.status = eFSM_ERROR_INIT

(***************************************************************************)
(* C7: fsm_reset on a constructed instance calls no callback, reads no     *)
(* tick, and leaves what fsm_init leaves: state.cur = state.next = 0,      *)
(* duration 0, first_entry false, state.is_init and is_init set; the       *)
(* handler call that follows enters without exit, as the first handler     *)
(* call after fsm_init does.                                               *)
(***************************************************************************)
C7_Reset ==
    [][ Constructed =>
          /\ ret'.fn = "fsm_reset" =>
                /\ ret'.status = eFSM_OK
                /\ fsm'.state = [is_init |-> TRUE, cur |-> 0, next |-> 0]
                /\ fsm'.duration = Zero32
                /\ fsm'.tick_prev = Zero32
                /\ fsm'.first_entry = FALSE
                /\ fsm'.is_init
                /\ pc' = pc /\ calls' = calls
          /\ (JustReturned' /\ hist'.fresh = "reset") =>
                /\ calls' = Configured(<< <<"on_entry", 0>>, <<"on_activity", 0>> >>)
                /\ fsm'.state.cur = 0
          /\ (((InHandler' /\ pc' # "manager") \/ JustReturned') /\ hist'.fresh = "reset") =>
                branch' = "initial"
          /\ (((InHandler' /\ pc' # "manager") \/ JustReturned') /\ branch' = "initial") =>
                CallsOf({"on_exit"})' = <<>> ]_vars

\* fsm_reset has returned after a handler call that made a transition, at a
\* tick other than 0
C7_Witness ==
    /\ Constructed
    /\ ret = Returned("fsm_reset", 0, eFSM_OK)
    /\ branch = "transition"
    /\ systick # Zero32
    /\ fsm.tick_prev = Zero32

\* old + delta without wraparound, clamped at the ceiling
SaturatedSum(old, delta) ==
    LET lo == old[2] + delta[2]
        hi == old[1] + delta[1] + (lo \div Half)
    IN  IF hi >= Half \/ Ge32(U32(hi, lo % Half), DurationCeiling)
        THEN DurationCeiling
        ELSE U32(hi, lo % Half)

(***************************************************************************)
(* C8: in a handler call that makes no transition the duration never       *)
(* decreases, whatever the tick delta (0 .. 2^32-1): the new duration is   *)
(* min(old duration + delta, 0x1FFFFFFF) computed without wraparound.      *)
(***************************************************************************)
C8_DurationSaturates ==
    [][ (Constructed /\ pc = "handle" /\ branch = "same") =>
           /\ fsm'.duration = SaturatedSum(fsm.duration, Sub32(systick, fsm.tick_prev))
           /\ Ge32(fsm'.duration, fsm.duration) ]_vars

(***************************************************************************)
(* C9: in a handler call that enters a state no dwell time is accumulated: *)
(* the activity callback of the entered state sees a duration of 0, and    *)
(* the duration is 0 when the handler returns, even if the tick advances   *)
(* while the entry callback runs.                                          *)
(***************************************************************************)
C9_NoDwellInEntryCall ==
    (Constructed /\ branch \in {"initial", "transition"}
                 /\ (pc = "cb_activity" \/ JustReturned)) =>
        fsm_get_duration = Zero32

(***************************************************************************)
(* C9, amended: a handler call that enters a state sets the duration to 0  *)
(* and samples the tick before it calls on_entry, the duration stays 0     *)
(* until fsm_handle_cur_state runs, and fsm_handle_cur_state then adds, in *)
(* that same call, the ticks elapsed since the sample (or since a          *)
(* fsm_reset_duration of the entry callback), clamped at the ceiling: the  *)
(* activity callback sees 0 only when no tick elapsed in between.          *)
(***************************************************************************)
C9_EntryResetsThenAccumulates ==
    [][ Constructed =>
          /\ pc = "enter" =>
                (fsm'.duration = Zero32 /\ fsm'.tick_prev = systick)
          /\ pc \in {"cb_entry", "entered", "first_entry"} =>
                fsm'.duration = Zero32
          /\ (pc = "handle" /\ branch \in {"initial", "transition"}) =>
                /\ fsm'.duration = SaturatedSum(Zero32, Sub32(systick, fsm.tick_prev))
                /\ (systick = fsm.tick_prev <=> fsm'.duration = Zero32) ]_vars

\* the activity callback of a state entered in this handler call sees one tick
C9_Witness ==
    /\ Constructed
    /\ pc = "cb_activity"
    /\ branch = "transition"
    /\ calls = << <<"on_exit", 0>>, <<"on_entry", 1>>, <<"on_activity", 1>> >>
    /\ ret = Returned("fsm_hndl", 0, Running)
    /\ fsm_get_duration = U32(0, 1)

(***************************************************************************)
(* C10: handler calls repeated with no fsm_goto_state in between, neither  *)
(* from the host nor from a callback, keep the current state; from the     *)
(* second of them on no on_entry and no on_exit is called, on_activity of  *)
(* the current state is called once per call, and fsm_get_first_entry()    *)
(* is false.                                                               *)
(***************************************************************************)
C10_RepeatedHandle ==
    Constructed =>
        /\ (InHandler /\ hist.quiet >= 1) =>
              /\ CallsOf({"on_entry", "on_exit"}) = <<>>
              /\ fsm_get_state = hist.h_cur
        /\ (pc = "cb_activity" /\ hist.quiet >= 1) =>
              /\ calls = << <<"on_activity", hist.h_cur>> >>
              /\ ~fsm_get_first_entry
        /\ (JustReturned /\ hist.quiet = 2) =>
              /\ calls = Configured(<< <<"on_activity", hist.h_cur>> >>)
              /\ fsm_get_state = hist.h_cur
              /\ ~fsm_get_first_entry

\* two handler calls or more have run in state 1 since the last request
C10_Witness ==
    /\ Constructed
    /\ JustReturned
    /\ hist.quiet = 2
    /\ calls = << <<"on_activity", 1>> >>

(***************************************************************************)
(* C11: a handler call that finds state.next equal to state.cur outside    *)
(* the initial cycle, a request for the current state included, calls      *)
(* neither on_exit nor on_entry, does not set the duration to 0 (it adds   *)
(* the elapsed ticks as every call does), sets first_entry to false and    *)
(* calls only on_activity of the current state.                            *)
(***************************************************************************)
C11_SelfTransition ==
    [][ Constructed =>
          /\ (pc = "manager" /\ ~fsm.state.is_init
                             /\ fsm.state.cur = fsm.state.next) =>
                /\ branch' = "same"
                /\ pc' = "handle"
                /\ fsm' = [fsm EXCEPT !.first_entry = FALSE]
          /\ (pc = "handle" /\ branch = "same") =>
                /\ calls = <<>>
                /\ fsm'.duration =
                      FSM_LIMIT_DURATION(Add32(fsm.duration,
                                               Sub32(systick, fsm.tick_prev)))
                /\ fsm'.state = fsm.state
                /\ fsm'.first_entry = FALSE
          /\ (branch' = "same" /\ (pc' = "cb_activity" \/ JustReturned')) =>
                /\ calls' = Configured(<< <<"on_activity", hist'.h_cur>> >>)
                /\ fsm'.state.cur = hist'.h_cur
                /\ fsm'.first_entry = FALSE ]_vars

\* a handler call has run with a request of the host for the current state 1
\* in effect: only on_activity of state 1 was called, the duration counts on
C11_Witness ==
    /\ Constructed
    /\ JustReturned
    /\ branch = "same"
    /\ hist.h_req
    /\ hist.h_cur = 1 /\ hist.h_next = 1
    /\ calls = << <<"on_activity", 1>> >>
    /\ fsm_get_duration = U32(0, 2)
    /\ ~fsm_get_first_entry

(***************************************************************************)
(* C12: state.cur is assigned only after on_entry has returned: called     *)
(* from on_exit and from on_entry of the target, fsm_get_state() returns   *)
(* the state being left; from the activity callback of that handler call   *)
(* on it returns the target of the transition.                             *)
(***************************************************************************)
C12_CurUpdatedAfterEntry ==
    Constructed =>
        /\ pc \in {"cb_exit", "cb_entry"} => fsm_get_state = hist.h_cur
        /\ ((pc = "cb_activity" \/ JustReturned) /\ branch = "transition") =>
              fsm_get_state = hist.h_next

\* the steps of a handler call left to run at a position of the program
StepsLeft(p) ==
    CASE p = "manager" -> 9
      [] p = "exit" -> 8
      [] p = "cb_exit" -> 7
      [] p = "enter" -> 6
      [] p = "cb_entry" -> 5
      [] p = "entered" -> 4
      [] p = "first_entry" -> 3
      [] p = "handle" -> 2
      [] p = "cb_activity" -> 1
      [] OTHER -> 0

(***************************************************************************)
(* C13: a handler call that returns eFSM_OK calls on_activity (when not    *)
(* NULL) of the state that is current after fsm_manager's branch, once and *)
(* as its last callback; it calls at most one on_exit and at most one      *)
(* on_entry, three callbacks at most; it never goes back to an earlier     *)
(* step, so it returns when its callbacks return.                          *)
(***************************************************************************)
C13_BoundedCallbacks ==
    [][ Constructed =>
          /\ (InHandler /\ pc' # pc) => StepsLeft(pc') < StepsLeft(pc)
          /\ (InHandler' \/ JustReturned') =>
                /\ Len(CallsOf({"on_exit"})') <= 1
                /\ Len(CallsOf({"on_entry"})') <= 1
                /\ Len(CallsOf({"on_activity"})') <= 1
                /\ Len(calls') <= 3
          /\ pc = "handle" =>
                /\ fsm'.state.cur = fsm.state.cur
                /\ CallsOf({"on_activity"}) = <<>>
                /\ calls' = calls \o Configured(<< <<"on_activity", fsm.state.cur>> >>)
          /\ (pc' = "cb_activity" \/ JustReturned') =>
                /\ CallsOf({"on_activity"})' =
                      Configured(<< <<"on_activity", fsm.state.cur>> >>)'
                /\ CallsOf({"on_activity"})' # <<>> =>
                      calls'[Len(calls')] = <<"on_activity", fsm'.state.cur>> ]_vars

\* a handler call has returned after its three callbacks
C13_Witness ==
    /\ Constructed
    /\ JustReturned
    /\ calls = << <<"on_exit", 0>>, <<"on_entry", 1>>, <<"on_activity", 1>> >>
    /\ fsm_get_state = 1

(***************************************************************************)
(* C14: whatever fsm_goto_state calls the callbacks make, state.cur only   *)
(* becomes a state whose on_entry was called in the same handler call: a   *)
(* handler call that entered a state returns with the state current whose  *)
(* on_entry it called, and calls on_activity of that state only.  (Tables  *)
(* whose states have an on_entry callback.)                                *)
(***************************************************************************)
C14_CurrentIsEnteredState ==
    (Constructed /\ fsm.p_cfg.p_states[0].on_entry /\ branch # "same") =>
        /\ JustReturned =>
              CallsOf({"on_entry"}) = << <<"on_entry", fsm_get_state>> >>
        /\ (pc = "cb_activity" \/ JustReturned) =>
              \A i, j \in DOMAIN calls :
                  (calls[i][1] = "on_entry" /\ calls[j][1] = "on_activity") =>
                      calls[j][2] = calls[i][2]

(***************************************************************************)
(* C15: a fsm_goto_state made by on_exit, on_entry or on_activity during a *)
(* handler call does not change the state that call enters or leaves       *)
(* current: the call calls on_entry of no state but the one pending when   *)
(* it was called, and returns with that state current.                     *)
(***************************************************************************)
C15_CallbackRequestDeferred ==
    Constructed =>
        /\ (InHandler /\ hist.quiet = -1) =>
              \A i \in DOMAIN calls :
                  calls[i][1] = "on_entry" => calls[i][2] = hist.h_next
        /\ (JustReturned /\ hist.quiet = 0) =>
              fsm_get_state = hist.h_next

(***************************************************************************)
(* C16: the first handler call after fsm_init or fsm_reset, with state t   *)
(* pending (the last valid request, or 0), calls on_entry of t, no on_exit *)
(* and no on_entry of another state, and returns with t current;           *)
(* state.is_init is false from then on and is set again by fsm_reset only. *)
(***************************************************************************)
C16_InitialCycle ==
    [][ Constructed' =>
          /\ (pc = "manager" /\ fsm.state.is_init) =>
                (branch' = "initial" /\ ~fsm'.state.is_init)
          /\ (JustReturned' /\ branch' = "initial") =>
                /\ CallsOf({"on_entry", "on_exit"})' =
                      Configured(<< <<"on_entry", hist.h_next>> >>)'
                /\ fsm_get_state' = hist'.h_next
          /\ (((InHandler' /\ pc' # "manager") \/ JustReturned')) =>
                ~fsm'.state.is_init
          /\ (fsm'.state.is_init /\ ~fsm.state.is_init) =>
                ret'.fn \in {"fsm_init", "fsm_reset"} ]_vars

\* a < b in uint32_t
Lt32(a, b) == ~Ge32(a, b)

(***************************************************************************)
(* C17: while the machine stays in a state and the duration is below the   *)
(* ceiling, the duration after a handler call that makes no transition is  *)
(* the number of ticks from the tick sampled at entry (or by the last      *)
(* fsm_reset_duration) to the tick that call read, modulo 2^32: a tick     *)
(* counter that wrapped in between gives the same difference.              *)
(***************************************************************************)
C17_DurationIsElapsedTicks ==
    [][ Constructed' =>
          /\ (pc = "handle" /\ branch = "same"
                            /\ Lt32(fsm'.duration, DurationCeiling)) =>
                /\ fsm'.tick_prev = systick
                /\ fsm'.duration = Sub32(systick, hist.t0)
          /\ ((pc' = "cb_activity" \/ JustReturned') /\ branch' = "same"
                /\ Lt32(fsm_get_duration', DurationCeiling)) =>
                fsm_get_duration' = Sub32(fsm'.tick_prev, hist'.t0) ]_vars

(***************************************************************************)
(* C18: on a constructed instance with a table of N states, state.cur and  *)
(* state.next are indices of the table in every reachable state, whatever  *)
(* fsm_hndl, fsm_goto_state (accepted or rejected), fsm_reset,             *)
(* fsm_reset_duration and fsm_set_data calls were made, and every callback *)
(* called was read at an index of the table.                               *)
(***************************************************************************)
C18_IndicesValid ==
    Constructed =>
        /\ NumOf >= 1
        /\ fsm.state.cur \in 0..(NumOf - 1)
        /\ fsm.state.next \in 0..(NumOf - 1)
        /\ \A i \in DOMAIN calls : calls[i][2] \in 0..(NumOf - 1)

\* a callback of the last state of the largest table asked for the state one
\* past the table, and was refused
C18_Witness ==
    /\ Constructed
    /\ NumOf = MaxStates
    /\ pc = "cb_entry"
    /\ calls[Len(calls)] = <<"on_entry", NumOf - 1>>
    /\ ret = Returned("fsm_goto_state", NumOf, eFSM_ERROR)
    /\ fsm.state.next = NumOf - 1

(***************************************************************************)
(* C19: on a constructed instance fsm_get_duration() is at most 0x1FFFFFFF *)
(* in every state the host or a callback can read it in.                   *)
(***************************************************************************)
C19_DurationBounded ==
    Constructed => Ge32(DurationCeiling, fsm_get_duration)

\* the activity callback reads a duration at the ceiling
C19_Witness ==
    /\ Constructed
    /\ pc = "cb_activity"
    /\ fsm_get_duration = DurationCeiling

(***************************************************************************)
(* C20: on a constructed instance the data slot is written by fsm_set_data *)
(* only: fsm_set_data(d) stores d, which fsm_get_data() returns, and       *)
(* changes no other field; every other step (the steps of fsm_hndl,        *)
(* fsm_goto_state, fsm_reset_duration, fsm_reset) leaves the slot as it    *)
(* is, across transitions too.                                             *)
(***************************************************************************)
C20_DataFrame ==
    [][ Constructed =>
          /\ (ret' # ret /\ ret'.fn = "fsm_set_data") =>
                /\ fsm' = [fsm EXCEPT !.data = ret'.arg]
                /\ fsm_get_data' = ret'.arg
                /\ pc' = pc /\ calls' = calls
          /\ ret'.fn = "fsm_set_data" => fsm_get_data' = ret'.arg
          /\ ret'.fn # "fsm_set_data" => fsm_get_data' = fsm_get_data ]_vars

\* on_exit of state 0 has stored 1 in the slot
C20_Witness ==
    /\ Constructed
    /\ pc = "cb_exit"
    /\ calls = << <<"on_exit", 0>> >>
    /\ ret = Returned("fsm_set_data", 1, Void)
    /\ fsm_get_data = 1

(***************************************************************************)
(* C21: fsm_reset_duration sets the duration to 0 and tick_prev to the     *)
(* tick it reads, calls no callback and leaves state.cur, state.next,      *)
(* state.is_init, first_entry and data as they are; the next handler call  *)
(* that makes no transition then reports as duration the ticks elapsed     *)
(* since the fsm_reset_duration call, and no more.                         *)
(***************************************************************************)
C21_ResetDuration ==
    [][ Constructed =>
          /\ (ret'.fn = "fsm_reset_duration" /\ systick' = systick) =>
                /\ fsm' = [fsm EXCEPT !.duration = Zero32, !.tick_prev = systick]
                /\ fsm_get_duration' = Zero32
                /\ pc' = pc /\ calls' = calls
          /\ (pc = "handle" /\ branch = "same" /\ hist.rd) =>
                fsm_get_duration' = Sub32(systick, hist.t0) ]_vars

(***************************************************************************)
(* C21, amended: fsm_reset_duration sets the duration to 0 and tick_prev   *)
(* to the tick it reads, calls no callback and leaves every other field as *)
(* it is; the next handler call that makes no transition reports as        *)
(* duration the ticks elapsed since the fsm_reset_duration call (modulo    *)
(* 2^32), clamped at the ceiling 0x1FFFFFFF.                               *)
(***************************************************************************)
C21_ResetDurationThenClamped ==
    [][ Constructed =>
          /\ (ret'.fn = "fsm_reset_duration" /\ systick' = systick) =>
                /\ fsm' = [fsm EXCEPT !.duration = Zero32, !.tick_prev = systick]
                /\ fsm_get_duration' = Zero32
                /\ pc' = pc /\ calls' = calls
          /\ (pc = "handle" /\ branch = "same" /\ hist.rd) =>
                /\ fsm.duration = Zero32 /\ fsm.tick_prev = hist.t0
                /\ fsm_get_duration' =
                      SaturatedSum(Zero32, Sub32(systick, hist.t0)) ]_vars

\* the handler call after a fsm_reset_duration made at a tick other than 0, in
\* state 1, is about to add the one tick elapsed since
C21_Witness ==
    /\ Constructed
    /\ pc = "handle"
    /\ branch = "same"
    /\ hist.rd
    /\ fsm_get_state = 1
    /\ hist.t0 # Zero32
    /\ Sub32(systick, hist.t0) = U32(0, 1)
    /\ fsm_get_duration = Zero32

(***************************************************************************)
(* C22: a valid fsm_goto_state made by the host from an interrupt at any   *)
(* point of a running handler call tears no transition: once the handler   *)
(* call has assigned state.cur, the state whose on_entry it called is the  *)
(* current state.  (Tables whose states have an on_entry callback; the     *)
(* callbacks request no transition.)                                       *)
(***************************************************************************)
C22_NoTornTransition ==
    (Constructed /\ fsm.p_cfg.p_states[0].on_entry /\ branch # "same"
        /\ (pc \in {"first_entry", "handle", "cb_activity"} \/ JustReturned)) =>
        CallsOf({"on_entry"}) = << <<"on_entry", fsm.state.cur>> >>

=============================================================================
